---- MODULE Spec2Model ----
(***************************************************************************)
(* Steady-state solver of the regeneratively cooled resistojet             *)
(* (resistojet_simulation.py).                                             *)
(*                                                                         *)
(* Floating-point quantities are carried as scaled integers:               *)
(*   temperatures            centikelvin          (300 K = 30000)          *)
(*   lengths                 1e-5 m               (0.04 m = 4000)          *)
(*   areas                   1e-10 m^2                                     *)
(*   density                 1e-3 kg/m^3                                   *)
(*   specific heat           J/(kg K)                                      *)
(*   conductivity            1e-2 W/(m K)                                  *)
(*   viscosity               1e-7 Pa s                                     *)
(*   mass flow               1e-6 kg/s                                     *)
(*   velocity                1e-4 m/s                                      *)
(*   Reynolds number         1e-2                                          *)
(*   Prandtl number          1e-3                                          *)
(*   Nusselt number          1e-3                                          *)
(*   heat-transfer coeff.    1e-2 W/(m^2 K)                                *)
(*   heat flow               1e-7 W                                        *)
(*   relaxation factor       1e-3                 (0.05 = 50)              *)
(*   roughness               1e-7 m                                        *)
(*   friction factor         1e-6                                          *)
(* Division rounds toward minus infinity.  interp1d(kind='cubic') is       *)
(* carried as the piecewise-linear interpolant through the same knots,     *)
(* extended linearly outside the table (fill_value='extrapolate').         *)
(***************************************************************************)
EXTENDS Integers, Sequences, FiniteSets, TLC

\* ------------------------------------------------------------------ bounds
MaxIterations == 3      \* largest max_iterations argument explored

\* --------------------------------------------------------------- constants
NUM_STATIONS == 20
CHAMBER_HEIGHT == 4000
CHAMBER_INNER_DIAMETER == 2000
CHAMBER_WALL_THICKNESS == 100
COOLING_GAP == 100
MASS_FLOW_RATE == 5
PRESSURE == 10
HEATER_POWER == 70
INITIAL_TEMP == 300
CHAMBER_ROUGHNESS == 8
COOLING_ROUGHNESS == 500

\* float('nan'): the result of an undefined floating-point operation
NaN == 0 - 2000000000
\* float('inf'), the initial prev_max_diff
Inf == 2000000000
\* a local name read before any assignment
Unbound == 0 - 1

cK(kelvin) == kelvin * 100

chamber_inner_radius == CHAMBER_INNER_DIAMETER \div 2
chamber_outer_radius == chamber_inner_radius + CHAMBER_WALL_THICKNESS
cooling_inner_radius == chamber_outer_radius
cooling_outer_radius == cooling_inner_radius + COOLING_GAP

\* np.pi * r**2 with pi = 355/113
chamber_inner_area == (355 * chamber_inner_radius * chamber_inner_radius) \div 113
\* the value the module binds to the name cooling_area when it is imported
cooling_area_module ==
    (355 * (cooling_outer_radius * cooling_outer_radius
            - cooling_inner_radius * cooling_inner_radius)) \div 113

Stations == 0 .. (NUM_STATIONS - 1)

\* ------------------------------------------------------- property tables
T_data == <<300, 500, 1000, 1500, 2000, 2500, 3000, 3500, 4000>>
rho_data == <<800, 480, 240, 160, 120, 96, 80, 69, 60>>
cp_data == <<14300, 14500, 15000, 15500, 16000, 16300, 16500, 16700, 16800>>
k_data == <<18, 26, 42, 52, 60, 65, 72, 78, 84>>
mu_data == <<89, 122, 199, 260, 310, 350, 385, 415, 440>>

T_data_inconel == <<300, 500, 700, 900, 1100, 1300>>
k_data_inconel == <<114, 138, 162, 186, 210, 234>>
cp_data_inconel == <<435, 460, 485, 510, 535, 560>>
rho_inconel == 8190

\* the value a local name is bound to: the element of a one-element set
value(S) == CHOOSE v \in S : TRUE

\* the table interval used for T: the last one whose left knot is <= T,
\* the first one below the table, the last one above it
LastOrFirst(S) == IF S = {} THEN 1 ELSE CHOOSE j \in S : \A k \in S : k <= j

Segment(xs, T) ==
    value({LastOrFirst(below) : below \in {{j \in 1 .. (Len(xs) - 1) : cK(xs[j]) <= T}}})

interpolate_previous(xs, ys, T, j) == ys[j]

\* the interpolant on interval j
interpolate(xs, ys, T, j) ==
    ys[j] + ((ys[j + 1] - ys[j]) * (T - cK(xs[j]))) \div cK(xs[j + 1] - xs[j])

\* the four interpolants share the knots T_data
hydrogen_properties(T) ==
    value({[density              |-> interpolate(T_data, rho_data, T, j),
            specific_heat        |-> interpolate(T_data, cp_data, T, j),
            thermal_conductivity |-> interpolate(T_data, k_data, T, j),
            viscosity            |-> interpolate(T_data, mu_data, T, j)] :
              j \in {Segment(T_data, T)}})

\* conductivity of the wall alloy in 1e-1 W/(m K)
inconel_properties(T) ==
    value({[thermal_conductivity |-> interpolate(T_data_inconel, k_data_inconel, T, j),
            specific_heat        |-> interpolate(T_data_inconel, cp_data_inconel, T, j),
            density              |-> rho_inconel] :
              j \in {Segment(T_data_inconel, T)}})

\* --------------------------------------------------------------- variables
VARIABLES
    progress_callback,     \* argument: "none", "ternary" or "unary" callable
    max_iterations,        \* argument
    tolerance,             \* argument
    relaxation_arg,        \* argument relaxation_factor as the caller passed it
    relaxation_factor,     \* the local name, shrunk by the adaptive damping
    T_cooling_fluid,
    T_chamber_wall,
    T_chamber_fluid,
    T_chamber_wall_prev,
    prev_max_diff,
    max_diff,
    iteration,
    pc,                    \* position of the running call
    cooling_area,          \* module-level name cooling_area
    stdout,                \* the solver's own messages printed by the running call
    cb_errors,             \* callback errors caught and printed by the running call
    cb_log,                \* argument tuples the callback body received
    diffs,                 \* max_diff of every iteration of the running call
    relax_used,            \* relaxation_factor read by every wall balance
    result,                \* the returned tuple, or NoResult
    previous,              \* outcome of the caller's previous call, or NoCall
    frame                  \* a call of calculate_flow_parameters or of
                           \* calculate_heat_transfer made from outside the solver

vars == <<progress_callback, max_iterations, tolerance, relaxation_arg,
          relaxation_factor, T_cooling_fluid, T_chamber_wall, T_chamber_fluid,
          T_chamber_wall_prev, prev_max_diff, max_diff, iteration, pc,
          cooling_area, stdout, cb_errors, cb_log, diffs, relax_used, result,
          previous, frame>>

\* ------------------------------------------------------ integer roots
RECURSIVE CubeRootIn(_, _, _)
CubeRootIn(lo, hi, n) ==
    IF lo >= hi THEN lo
    ELSE value({IF mid * mid * mid <= n THEN CubeRootIn(mid, hi, n)
                ELSE CubeRootIn(lo, mid - 1, n) : mid \in {(lo + hi + 1) \div 2}})

\* floor of the cube root of n, 0 <= n < 2^31
CubeRoot(n) == CubeRootIn(0, 1290, n)

\* floor of the fifth root of n, 0 <= n < 2^31
FifthRoot(n) ==
    CHOOSE r \in 0 .. 73 : r * r * r * r * r <= n
                           /\ (r = 73 \/ (r + 1) * (r + 1) * (r + 1) * (r + 1) * (r + 1) > n)

Square(x) == x * x

\* floor(a * b / c) without the product a * b, for a >= 0, b >= 0, c > 0 and
\* (c - 1) * b < 2^31
MulDiv(a, b, c) == (a \div c) * b + ((a % c) * b) \div c

Pow100 == <<100, 10000, 1000000, 100000000>>

\* floor(a * 100^k / c) by long division, for a >= 0 and 0 < c < 2^31 / 100
RECURSIVE DivScaled(_, _, _)
DivScaled(a, c, k) ==
    IF k = 0 THEN a \div c
    ELSE value({(a \div c) * Pow100[k] + DivScaled(r * 100, c, k - 1) : r \in {a % c}})

RECURSIVE SqrtIn(_, _, _)
SqrtIn(lo, hi, n) ==
    IF lo >= hi THEN lo
    ELSE value({IF mid * mid <= n THEN SqrtIn(mid, hi, n)
                ELSE SqrtIn(lo, mid - 1, n) : mid \in {(lo + hi + 1) \div 2}})

\* floor of the square root of n, 0 <= n < 2^31
Sqrt(n) == SqrtIn(0, 46340, n)

\* n = m * 2^e with 2^15 <= m < 2^16
RECURSIVE Normalised(_, _)
Normalised(m, e) ==
    IF m >= 65536 THEN Normalised(m \div 2, e + 1)
    ELSE IF m < 32768 THEN Normalised(m * 2, e - 1)
    ELSE [mantissa |-> m, exponent |-> e]

\* the first bits of the fraction of log2(m / 2^15), by repeated squaring
RECURSIVE Log2Fraction(_, _, _)
Log2Fraction(m, bits, fraction) ==
    IF bits = 0 THEN fraction
    ELSE value({IF sq >= 65536
                THEN Log2Fraction(sq \div 2, bits - 1, 2 * fraction + 1)
                ELSE Log2Fraction(sq, bits - 1, 2 * fraction) :
                   sq \in {MulDiv(m, m, 32768)}})

\* log2(n) in units of 2^-14
Log2Of(normalised) ==
    (15 + normalised.exponent) * 16384 + Log2Fraction(normalised.mantissa, 14, 0)

\* np.log10(n) in 1e-6, for an integer n >= 1
Log10(n) == value({MulDiv(Log2Of(normalised), 30103, 16384) * 10 :
                      normalised \in {Normalised(n, 0)}})

\* ------------------------------------------------------------ flow model
\* velocity = mass_flow / (props['density'] * area)
flow_velocity(density, area, mass_flow) ==
    IF density * (area \div 1000) = 0 THEN NaN
    ELSE DivScaled(mass_flow, density * (area \div 1000), 4)

\* if area == chamber_inner_area: ... else: ...
flow_hydraulic_diameter(area) ==
    IF area = chamber_inner_area THEN CHAMBER_INNER_DIAMETER ELSE 2 * COOLING_GAP

\* reynolds = props['density'] * velocity * hydraulic_diameter / props['viscosity']
flow_reynolds(density, viscosity, velocity, hydraulic_diameter) ==
    IF velocity = NaN \/ viscosity = 0 THEN NaN
    ELSE MulDiv(density * velocity, hydraulic_diameter, viscosity * 1000)

flow_result(props, velocity, hydraulic_diameter) ==
    [velocity |-> velocity,
     reynolds |-> flow_reynolds(props.density, props.viscosity, velocity,
                                hydraulic_diameter)]

flow_of(props, area, mass_flow) ==
    flow_result(props, flow_velocity(props.density, area, mass_flow),
                flow_hydraulic_diameter(area))

\* roughness of the branch taken by: if area == chamber_inner_area: ... else: ...
flow_roughness(area) ==
    IF area = chamber_inner_area THEN CHAMBER_ROUGHNESS ELSE COOLING_ROUGHNESS

\* 64 / reynolds
laminar_friction(reynolds) == DivScaled(64000000, reynolds, 1)

\* 0.316 * reynolds**(-0.25); 561936293 = 0.316 * 10^(6 + 9/4)
blasius_of(root) == 561936293 \div Sqrt(root * 10000)

blasius_friction(reynolds) == blasius_of(Sqrt(reynolds * 1000))

friction_laminar_at_boundary(reynolds) ==
    IF reynolds <= 230000 THEN laminar_friction(reynolds)
    ELSE blasius_friction(reynolds)

\* if reynolds < 2300: friction_factor = 64 / reynolds else: the Blasius value
friction_before_correction(reynolds) ==
    IF reynolds < 230000 THEN laminar_friction(reynolds)
    ELSE blasius_friction(reynolds)

\* if reynolds > 4000:
corrects_for_roughness(reynolds) == reynolds > 400000

\* (1 / y)**2 from 1 / y in 1e-6
squared(q) ==
    Square(q \div 1000)
    + (2 * (q \div 1000) * (q % 1000) * 1000 + Square(q % 1000)) \div 1000000

\* (1 / (-2 * log10(argument)))**2, the argument in 1e-8
colebrook_of(argument) ==
    squared(DivScaled(1000000, 2 * (8000000 - Log10(argument)), 3))

\* roughness / (3.7 * hydraulic_diameter) and 2.51 / (reynolds * sqrt(f_old)), in 1e-8
colebrook_argument(roughness, hydraulic_diameter, reynolds_root_f) ==
    DivScaled(roughness * 10, 37 * hydraulic_diameter, 3)
    + DivScaled(2510, reynolds_root_f, 4)

\* f_new = (1 / (-2 * np.log10(roughness / (3.7 * hydraulic_diameter)
\*                             + 2.51 / (reynolds * np.sqrt(f_old)))))**2
colebrook_update(reynolds, roughness, hydraulic_diameter, f_old) ==
    value({colebrook_of(argument) :
              argument \in {colebrook_argument(
                               roughness, hydraulic_diameter,
                               MulDiv(reynolds, Sqrt(f_old * 10000), 10000))}})

calculate_flow_parameters_compressible(T, area, mass_flow, pressure) ==
    IF T = NaN THEN [velocity |-> NaN, reynolds |-> NaN]
    ELSE value({flow_of([props EXCEPT !.density = (@ * pressure) \div PRESSURE],
                        area, mass_flow) :
                   props \in {hydrogen_properties(T)}})

\* lines 138-152; the parameter pressure is bound and never read
calculate_flow_parameters(T, area, mass_flow, pressure) ==
    IF T = NaN THEN [velocity |-> NaN, reynolds |-> NaN]
    ELSE value({flow_of(props, area, mass_flow) : props \in {hydrogen_properties(T)}})

\* ---------------------------------------------------- heat-transfer model
\* 3.66 + 0.0668*x / (1 + 0.04 * x**(2/3)), x = (D/CHAMBER_HEIGHT)*Re*Pr
laminar_formula(x, cube_root) ==
    3660 + (6680 * x) \div (10000 + 4 * (Square(cube_root) \div 100))

laminar_of(x) ==
    IF x < 0 THEN NaN
    ELSE value({laminar_formula(x, cube_root) : cube_root \in {CubeRoot(x * 10000)}})

laminar_nusselt_own_length(reynolds, prandtl, hydraulic_diameter) ==
    laminar_of((((reynolds * prandtl) \div 1000) * hydraulic_diameter)
               \div hydraulic_diameter)

laminar_nusselt(reynolds, prandtl, hydraulic_diameter) ==
    laminar_of((((reynolds * prandtl) \div 1000) * hydraulic_diameter)
               \div CHAMBER_HEIGHT)

\* 0.023 * reynolds**0.8 * prandtl**0.4
turbulent_formula(a, b) == (((23 * a * a * a * a) \div 10000) * b) \div 10

turbulent_nusselt(reynolds, prandtl) ==
    IF reynolds < 0 \/ prandtl < 0 THEN NaN
    ELSE value({turbulent_formula(a, b) : a \in {FifthRoot(reynolds * 1000)},
                                          b \in {FifthRoot(Square(prandtl) \div 10)}})

\* if reynolds < 2300: ... else: ...
nusselt_number(reynolds, prandtl, hydraulic_diameter) ==
    IF reynolds < 230000
    THEN laminar_nusselt(reynolds, prandtl, hydraulic_diameter)
    ELSE turbulent_nusselt(reynolds, prandtl)

\* prandtl = specific_heat * viscosity / thermal_conductivity
prandtl_number(props) ==
    (props.specific_heat * props.viscosity) \div (props.thermal_conductivity * 100)

\* h = nusselt * thermal_conductivity / hydraulic_diameter
coefficient(nusselt, thermal_conductivity, hydraulic_diameter) ==
    IF nusselt = NaN THEN NaN
    ELSE (nusselt * thermal_conductivity * 100) \div hydraulic_diameter

heat_transfer_of(props, reynolds, hydraulic_diameter) ==
    IF reynolds = NaN \/ props.thermal_conductivity = 0 THEN NaN
    ELSE value({coefficient(nusselt, props.thermal_conductivity, hydraulic_diameter) :
                   nusselt \in {nusselt_number(reynolds, prandtl_number(props),
                                               hydraulic_diameter)}})

\* if area_type == 'chamber': area = chamber_inner_area; else: area = cooling_area
duct_area(area_type) ==
    IF area_type = "chamber" THEN chamber_inner_area ELSE cooling_area

calculate_heat_transfer_film(T_fluid, T_wall, area_type, hydraulic_diameter) ==
    IF T_fluid = NaN THEN NaN
    ELSE value({heat_transfer_of(props, flow_params.reynolds, hydraulic_diameter) :
                   props \in {hydrogen_properties((T_fluid + T_wall) \div 2)},
                   flow_params \in {calculate_flow_parameters(
                                        T_fluid, duct_area(area_type),
                                        MASS_FLOW_RATE, PRESSURE)}})

calculate_heat_transfer(T_fluid, T_wall, area_type, hydraulic_diameter) ==
    IF T_fluid = NaN THEN NaN
    ELSE value({heat_transfer_of(props, flow_params.reynolds, hydraulic_diameter) :
                   props \in {hydrogen_properties(T_fluid)},
                   flow_params \in {calculate_flow_parameters(
                                        T_fluid, duct_area(area_type),
                                        MASS_FLOW_RATE, PRESSURE)}})

\* ------------------------------------------------- per-station quantities
\* heater_power_distribution[i], the same share at every station
heater_power_distribution(i) == (HEATER_POWER * 10000000) \div NUM_STATIONS

\* dz = CHAMBER_HEIGHT / (NUM_STATIONS - 1), the spacing of z_points
dz == CHAMBER_HEIGHT \div (NUM_STATIONS - 1)

\* 2 * np.pi * radius * (CHAMBER_HEIGHT / NUM_STATIONS)
heat_transfer_area(radius) ==
    (2 * 355 * radius * (CHAMBER_HEIGHT \div NUM_STATIONS)) \div 113

\* h * area * (T_wall - T_fluid); h * area is carried in 1e-5 W/K
heat_flow(h, area, T_wall, T_fluid) ==
    ((h * (area \div 1000)) \div 10000) * (T_wall - T_fluid)

\* T + q / (MASS_FLOW_RATE * specific_heat)
heated_fluid(T, q, specific_heat) ==
    IF (MASS_FLOW_RATE * specific_heat) \div 10 = 0 THEN NaN
    ELSE T + q \div ((MASS_FLOW_RATE * specific_heat) \div 10)

coolant_update(T_cooling_i, T_wall_i, h_cooling, props_cooling) ==
    IF T_wall_i = NaN \/ h_cooling = NaN THEN NaN
    ELSE heated_fluid(T_cooling_i,
                      heat_flow(h_cooling, heat_transfer_area(chamber_outer_radius),
                                T_wall_i, T_cooling_i),
                      props_cooling.specific_heat)

\* the value stored in T_cooling_fluid[i+1]
coolant_station(T_cooling_i, T_wall_i) ==
    IF T_cooling_i = NaN THEN NaN
    ELSE value({coolant_update(T_cooling_i, T_wall_i, h_cooling, props_cooling) :
                   h_cooling \in {calculate_heat_transfer(T_cooling_i, T_wall_i, "cooling",
                                                          2 * COOLING_GAP)},
                   props_cooling \in {hydrogen_properties(T_cooling_i)}})

ChamberPassStations_from_two == 2 .. (NUM_STATIONS - 1)

\* the stations the chamber-fluid pass adds heater power at
ChamberPassStations == 1 .. (NUM_STATIONS - 1)

\* q_total = q_heater + q_wall
chamber_update(i, T_chamber_i, T_wall_i, h_chamber, props_chamber) ==
    IF T_wall_i = NaN \/ h_chamber = NaN THEN NaN
    ELSE heated_fluid(T_chamber_i,
                      heater_power_distribution(i)
                      + heat_flow(h_chamber, heat_transfer_area(chamber_inner_radius),
                                  T_wall_i, T_chamber_i),
                      props_chamber.specific_heat)

\* the value stored in T_chamber_fluid[i-1]
chamber_station(i, T_chamber_i, T_wall_i) ==
    IF T_chamber_i = NaN THEN NaN
    ELSE value({chamber_update(i, T_chamber_i, T_wall_i, h_chamber, props_chamber) :
                   h_chamber \in {calculate_heat_transfer(T_chamber_i, T_wall_i, "chamber",
                                                          CHAMBER_INNER_DIAMETER)},
                   props_chamber \in {hydrogen_properties(T_chamber_i)}})

wall_volume ==
    ((355 * (chamber_outer_radius * chamber_outer_radius
             - chamber_inner_radius * chamber_inner_radius)) \div 113)
    * (CHAMBER_HEIGHT \div NUM_STATIONS)

\* wall_mass = props_wall['density'] * wall_volume
wall_mass(props_wall) == (props_wall.density * (wall_volume \div 1000)) \div 1000000

\* wall_mass * props_wall['specific_heat'], carried in 1e-5 J/K
wall_heat_capacity(props_wall) == (wall_mass(props_wall) * props_wall.specific_heat) \div 10

\* q_net = q_heater - q_cooling - q_chamber
wall_q_net(i, T_wall_i, T_cooling_i, T_chamber_i, h_cooling, h_chamber) ==
    heater_power_distribution(i)
    - heat_flow(h_cooling, heat_transfer_area(chamber_outer_radius), T_wall_i, T_cooling_i)
    - heat_flow(h_chamber, heat_transfer_area(chamber_inner_radius), T_wall_i, T_chamber_i)

\* dT_wall = q_net / (wall_mass * specific_heat) * relaxation_factor
wall_increment(q_net, heat_capacity, relaxation) ==
    ((q_net \div heat_capacity) * relaxation) \div 1000

wall_update(i, T_wall_i, T_cooling_i, T_chamber_i, relaxation, h_cooling, h_chamber, heat_capacity) ==
    IF h_cooling = NaN \/ h_chamber = NaN \/ relaxation = NaN \/ heat_capacity = 0
    THEN NaN
    ELSE T_wall_i + wall_increment(
                        wall_q_net(i, T_wall_i, T_cooling_i, T_chamber_i,
                                   h_cooling, h_chamber),
                        heat_capacity, relaxation)

\* the value stored in T_chamber_wall[i] by T_chamber_wall[i] += dT_wall
wall_station(i, T_wall_i, T_cooling_i, T_chamber_i, relaxation) ==
    IF T_wall_i = NaN THEN NaN
    ELSE value({wall_update(i, T_wall_i, T_cooling_i, T_chamber_i, relaxation,
                            h_cooling, h_chamber, wall_heat_capacity(props_wall)) :
                   h_cooling \in {calculate_heat_transfer(T_cooling_i, T_wall_i, "cooling",
                                                          2 * COOLING_GAP)},
                   h_chamber \in {calculate_heat_transfer(T_chamber_i, T_wall_i, "chamber",
                                                          CHAMBER_INNER_DIAMETER)},
                   props_wall \in {inconel_properties(T_wall_i)}})

\* ------------------------------------------------------------ the phases
coolant_target_in_place(i) == i

\* the index line 285 stores into: T_cooling_fluid[i+1]
coolant_target(i) == i + 1

\* for i in range(NUM_STATIONS-1): T_cooling_fluid[i+1] = ...
RECURSIVE coolant_pass(_, _, _)
coolant_pass(Tc, Tw, i) ==
    IF i >= NUM_STATIONS - 1 THEN Tc
    ELSE value({coolant_pass(updated, Tw, i + 1) :
                   updated \in {[Tc EXCEPT ![coolant_target(i)]
                                              = coolant_station(Tc[i], Tw[i])]}})

chamber_inlet_kept(Tf, Tc) == Tf

chamber_inlet_from_coolant_inlet(Tf, Tc) == [Tf EXCEPT ![NUM_STATIONS - 1] = Tc[0]]

\* T_chamber_fluid[-1] = T_cooling_fluid[-1]
chamber_inlet(Tf, Tc) == [Tf EXCEPT ![NUM_STATIONS - 1] = Tc[NUM_STATIONS - 1]]

\* for i in range(NUM_STATIONS-1, 0, -1): T_chamber_fluid[i-1] = ...
RECURSIVE chamber_pass(_, _, _)
chamber_pass(Tf, Tw, i) ==
    IF i \notin ChamberPassStations THEN Tf
    ELSE value({chamber_pass(updated, Tw, i - 1) :
                   updated \in {[Tf EXCEPT ![i - 1] = chamber_station(i, Tf[i], Tw[i])]}})

RECURSIVE wall_pass_upwind(_, _, _, _, _)
wall_pass_upwind(Tw, Tc, Tf, relaxation, i) ==
    IF i >= NUM_STATIONS THEN Tw
    ELSE value({wall_pass_upwind(updated, Tc, Tf, relaxation, i + 1) :
                   updated \in {[Tw EXCEPT ![i] = wall_station(
                                                      i, Tw[IF i = 0 THEN 0 ELSE i - 1],
                                                      Tc[i], Tf[i], relaxation)]}})

\* for i in range(NUM_STATIONS): T_chamber_wall[i] += dT_wall
RECURSIVE wall_pass(_, _, _, _, _)
wall_pass(Tw, Tc, Tf, relaxation, i) ==
    IF i >= NUM_STATIONS THEN Tw
    ELSE value({wall_pass(updated, Tc, Tf, relaxation, i + 1) :
                   updated \in {[Tw EXCEPT ![i] = wall_station(i, Tw[i], Tc[i], Tf[i],
                                                              relaxation)]}})

Abs(x) == IF x < 0 THEN 0 - x ELSE x

RECURSIVE MaxOver(_, _, _)
MaxOver(f, i, best) ==
    IF i >= NUM_STATIONS THEN best
    ELSE value({MaxOver(f, i + 1, larger) :
                   larger \in {IF f[i] > best THEN f[i] ELSE best}})

\* np.max(np.abs(T_chamber_wall - T_chamber_wall_prev)); NaN if any entry is
max_abs_diff(Tw, Tw_prev) ==
    IF \E i \in Stations : Tw[i] = NaN \/ Tw_prev[i] = NaN THEN NaN
    ELSE value({MaxOver(difference, 0, 0) :
                   difference \in {[i \in Stations |-> Abs(Tw[i] - Tw_prev[i])]}})

\* float comparisons: every comparison with NaN is false
FloatLess(a, b) == a # NaN /\ b # NaN /\ a < b
FloatGreater(a, b) == a # NaN /\ b # NaN /\ a > b

\* ------------------------------------------------------------- arguments
Callbacks == {"none", "ternary", "unary"}
Tolerances == {cK(1) \div 2, 283, 285}
Relaxations == {50, 200, 30000}

NoResult == <<>>
NoCall == <<>>
\* no call from outside the solver has been made
NoFrame == [function |-> "none", pc |-> "returned"]

args == <<max_iterations, tolerance, relaxation_arg>>
arrays == <<T_cooling_fluid, T_chamber_wall, T_chamber_fluid>>
history == <<diffs, relax_used>>
output == <<stdout, cb_errors>>

\* np.ones(NUM_STATIONS) * INITIAL_TEMP
initial_array == [i \in Stations |-> cK(INITIAL_TEMP)]

\* lines 247-256: the locals of a call that has just been entered
Enter(callback) ==
    /\ progress_callback' = callback
    /\ relaxation_factor' = relaxation_arg'
    /\ T_cooling_fluid' = initial_array
    /\ T_chamber_wall' = initial_array
    /\ T_chamber_fluid' = initial_array
    /\ T_chamber_wall_prev' = initial_array
    /\ prev_max_diff' = Inf
    /\ max_diff' = Unbound
    /\ iteration' = Unbound
    /\ pc' = "loop"
    /\ stdout' = <<>>
    /\ cb_errors' = 0
    /\ cb_log' = <<>>
    /\ diffs' = <<>>
    /\ relax_used' = <<>>
    /\ result' = NoResult

Init ==
    /\ max_iterations \in 0 .. MaxIterations
    /\ tolerance \in Tolerances
    /\ relaxation_arg \in Relaxations
    /\ progress_callback \in Callbacks
    /\ relaxation_factor = relaxation_arg
    /\ T_cooling_fluid = initial_array
    /\ T_chamber_wall = initial_array
    /\ T_chamber_fluid = initial_array
    /\ T_chamber_wall_prev = initial_array
    /\ prev_max_diff = Inf
    /\ max_diff = Unbound
    /\ iteration = Unbound
    /\ pc = "loop"
    /\ cooling_area = cooling_area_module
    /\ stdout = <<>>
    /\ cb_errors = 0
    /\ cb_log = <<>>
    /\ diffs = <<>>
    /\ relax_used = <<>>
    /\ result = NoResult
    /\ previous = NoCall
    /\ frame = NoFrame

\* --------------------------------------------------------------- actions
\* the next value of range(max_iterations)
next_index == IF iteration = Unbound THEN 0 ELSE iteration + 1

in_range_off_by_one(index, stop) == index <= stop

\* index is a value of range(stop)
in_range(index, stop) == index < stop

\* for iteration in range(max_iterations): one more iteration starts
LoopNext ==
    /\ pc = "loop"
    /\ in_range(next_index, max_iterations)
    /\ iteration' = next_index
    /\ T_chamber_wall_prev' = T_chamber_wall
    /\ pc' = "coolant"
    /\ UNCHANGED <<frame, progress_callback, args, relaxation_factor, arrays, prev_max_diff,
                   max_diff, cooling_area, output, cb_log, history, result, previous>>

\* range(max_iterations) is exhausted
LoopExhausted ==
    /\ pc = "loop"
    /\ ~in_range(next_index, max_iterations)
    /\ pc' = "after_loop"
    /\ UNCHANGED <<frame, progress_callback, args, relaxation_factor, arrays,
                   T_chamber_wall_prev, prev_max_diff, max_diff, iteration,
                   cooling_area, output, cb_log, history, result, previous>>

CoolantPass ==
    /\ pc = "coolant"
    /\ T_cooling_fluid' = coolant_pass(T_cooling_fluid, T_chamber_wall, 0)
    /\ pc' = "chamber"
    /\ UNCHANGED <<frame, progress_callback, args, relaxation_factor, T_chamber_wall,
                   T_chamber_fluid, T_chamber_wall_prev, prev_max_diff, max_diff,
                   iteration, cooling_area, output, cb_log, history, result, previous>>

ChamberPass ==
    /\ pc = "chamber"
    /\ T_chamber_fluid' = chamber_pass(chamber_inlet(T_chamber_fluid, T_cooling_fluid),
                                       T_chamber_wall, NUM_STATIONS - 1)
    /\ pc' = "wall"
    /\ UNCHANGED <<frame, progress_callback, args, relaxation_factor, T_chamber_wall,
                   T_cooling_fluid, T_chamber_wall_prev, prev_max_diff, max_diff,
                   iteration, cooling_area, output, cb_log, history, result, previous>>

cooling_area_rebound(area) == heat_transfer_area(chamber_outer_radius)

\* line 335 binds a local cooling_area; the module-level name keeps its value
cooling_area_after_wall(area) == area

WallBalance ==
    /\ pc = "wall"
    /\ T_chamber_wall' = wall_pass(T_chamber_wall, T_cooling_fluid, T_chamber_fluid,
                                   relaxation_factor, 0)
    /\ cooling_area' = cooling_area_after_wall(cooling_area)
    /\ relax_used' = Append(relax_used, relaxation_factor)
    /\ pc' = "max_diff"
    /\ UNCHANGED <<frame, progress_callback, args, relaxation_factor, T_cooling_fluid,
                   T_chamber_fluid, T_chamber_wall_prev, prev_max_diff, max_diff,
                   iteration, output, cb_log, diffs, result, previous>>

ConvergenceMetric_in_place ==
    /\ pc = "max_diff"
    /\ max_diff' = max_abs_diff(T_chamber_wall, T_chamber_wall_prev)
    /\ diffs' = Append(diffs, max_diff')
    /\ T_chamber_wall' = [i \in Stations |->
                             IF T_chamber_wall[i] = NaN THEN NaN
                             ELSE Abs(T_chamber_wall[i] - T_chamber_wall_prev[i])]
    /\ pc' = "callback"
    /\ UNCHANGED <<frame, progress_callback, args, relaxation_factor, T_cooling_fluid,
                   T_chamber_fluid, T_chamber_wall_prev, prev_max_diff, iteration,
                   cooling_area, output, cb_log, relax_used, result, previous>>

\* line 360: max_diff = np.max(np.abs(T_chamber_wall - T_chamber_wall_prev))
ConvergenceMetric ==
    /\ pc = "max_diff"
    /\ max_diff' = max_abs_diff(T_chamber_wall, T_chamber_wall_prev)
    /\ diffs' = Append(diffs, max_diff')
    /\ pc' = "callback"
    /\ UNCHANGED <<frame, progress_callback, args, relaxation_factor, arrays,
                   T_chamber_wall_prev, prev_max_diff, iteration, cooling_area,
                   output, cb_log, relax_used, result, previous>>

\* if progress_callback is not None: false
CallbackAbsent ==
    /\ pc = "callback"
    /\ progress_callback = "none"
    /\ pc' = "damping"
    /\ UNCHANGED <<frame, progress_callback, args, relaxation_factor, arrays,
                   T_chamber_wall_prev, prev_max_diff, max_diff, iteration,
                   cooling_area, output, cb_log, history, result, previous>>

after_callback_propagating(raised) == IF raised THEN "raised" ELSE "damping"

\* where the solver continues after the try statement of lines 364-367,
\* whether or not the call raised an Exception
after_callback(raised) == "damping"

callback_arguments_one_based == <<iteration + 1, max_iterations, max_diff>>

\* the positional arguments of line 365
callback_arguments == <<iteration, max_iterations, max_diff>>

\* progress_callback(iteration, max_iterations, max_diff) binds its three
\* parameters, runs its body and returns
CallbackReturns ==
    /\ pc = "callback"
    /\ progress_callback = "ternary"
    /\ cb_log' = Append(cb_log, callback_arguments)
    /\ pc' = after_callback(FALSE)
    /\ UNCHANGED <<frame, progress_callback, args, relaxation_factor, arrays,
                   T_chamber_wall_prev, prev_max_diff, max_diff, iteration,
                   cooling_area, output, history, result, previous>>

\* the body of a three-parameter callback raises an Exception; except
\* Exception catches it and prints it
CallbackRaises ==
    /\ pc = "callback"
    /\ progress_callback = "ternary"
    /\ cb_log' = Append(cb_log, callback_arguments)
    /\ cb_errors' = cb_errors + 1
    /\ pc' = after_callback(TRUE)
    /\ UNCHANGED <<frame, progress_callback, args, relaxation_factor, arrays,
                   T_chamber_wall_prev, prev_max_diff, max_diff, iteration,
                   cooling_area, stdout, history, result, previous>>

\* a one-parameter callback cannot be called with three positional arguments:
\* the call raises TypeError before the body runs; except Exception catches it
CallbackArityError ==
    /\ pc = "callback"
    /\ progress_callback = "unary"
    /\ cb_errors' = cb_errors + 1
    /\ pc' = after_callback(TRUE)
    /\ UNCHANGED <<frame, progress_callback, args, relaxation_factor, arrays,
                   T_chamber_wall_prev, prev_max_diff, max_diff, iteration,
                   cooling_area, stdout, cb_log, history, result, previous>>

shrinks_on_equal(it, diff, prev_diff) ==
    it > 0 /\ diff # NaN /\ prev_diff # NaN /\ diff >= prev_diff

\* if iteration > 0 and max_diff > prev_max_diff
shrinks(it, diff, prev_diff) == it > 0 /\ FloatGreater(diff, prev_diff)

grown(relaxation) == (relaxation * 105) \div 100

\* relaxation_factor *= 0.95
shrunk(relaxation) == (relaxation * 95) \div 100

AdaptiveRelaxation ==
    /\ pc = "damping"
    /\ relaxation_factor' = IF shrinks(iteration, max_diff, prev_max_diff)
                            THEN shrunk(relaxation_factor)
                            ELSE relaxation_factor
    /\ prev_max_diff' = max_diff
    /\ pc' = "test"
    /\ UNCHANGED <<frame, progress_callback, args, arrays, T_chamber_wall_prev, max_diff,
                   iteration, cooling_area, output, cb_log, history, result, previous>>

converged_unless_above(diff, tol) == ~(diff # NaN /\ tol # NaN /\ diff >= tol)

\* if max_diff < tolerance
converged(diff, tol) == FloatLess(diff, tol)

\* print, break
Converged ==
    /\ pc = "test"
    /\ converged(max_diff, tolerance)
    /\ stdout' = Append(stdout, "converged")
    /\ pc' = "after_loop"
    /\ UNCHANGED <<frame, progress_callback, args, relaxation_factor, arrays,
                   T_chamber_wall_prev, prev_max_diff, max_diff, iteration,
                   cooling_area, cb_errors, cb_log, history, result, previous>>

NotConverged ==
    /\ pc = "test"
    /\ ~converged(max_diff, tolerance)
    /\ pc' = "loop"
    /\ UNCHANGED <<frame, progress_callback, args, relaxation_factor, arrays,
                   T_chamber_wall_prev, prev_max_diff, max_diff, iteration,
                   cooling_area, output, cb_log, history, result, previous>>

\* if iteration == max_iterations - 1
warns(it, max_it) == it = max_it - 1

\* line 380 reads iteration, which the loop never bound: UnboundLocalError
RaiseUnbound ==
    /\ pc = "after_loop"
    /\ iteration = Unbound
    /\ pc' = "raised"
    /\ UNCHANGED <<frame, progress_callback, args, relaxation_factor, arrays,
                   T_chamber_wall_prev, prev_max_diff, max_diff, iteration,
                   cooling_area, output, cb_log, history, result, previous>>

return_value_swapped(Tw, Tc, Tf, count) == <<Tc, Tw, Tf, count>>

\* return T_chamber_wall, T_cooling_fluid, T_chamber_fluid, iteration + 1
return_value(Tw, Tc, Tf, count) == <<Tw, Tc, Tf, count>>

\* lines 380-385: the warning, then the return
Return ==
    /\ pc = "after_loop"
    /\ iteration # Unbound
    /\ stdout' = IF warns(iteration, max_iterations)
                 THEN Append(stdout, "warning")
                 ELSE stdout
    /\ result' = return_value(T_chamber_wall, T_cooling_fluid, T_chamber_fluid,
                               iteration + 1)
    /\ pc' = "returned"
    /\ UNCHANGED <<frame, progress_callback, args, relaxation_factor, arrays,
                   T_chamber_wall_prev, prev_max_diff, max_diff, iteration,
                   cooling_area, cb_errors, cb_log, history>>
    /\ UNCHANGED previous

\* what the caller keeps of a call that has ended
finished ==
    [callback |-> progress_callback, outcome |-> pc, result |-> result,
     stdout |-> stdout, cb_errors |-> cb_errors, relax_used |-> relax_used,
     relaxation_factor |-> relaxation_factor, diffs |-> diffs]

\* the caller invokes the solver once more with the same numeric arguments
NewCall ==
    /\ pc \in {"returned", "raised"}
    /\ previous = NoCall
    /\ previous' = finished
    /\ UNCHANGED <<frame, args, cooling_area>>
    /\ \E callback \in Callbacks : Enter(callback)

Next ==
    \/ LoopNext
    \/ LoopExhausted
    \/ CoolantPass
    \/ ChamberPass
    \/ WallBalance
    \/ ConvergenceMetric
    \/ CallbackAbsent
    \/ CallbackReturns
    \/ CallbackRaises
    \/ CallbackArityError
    \/ AdaptiveRelaxation
    \/ Converged
    \/ NotConverged
    \/ RaiseUnbound
    \/ Return
    \/ NewCall

Spec == Init /\ [][Next]_vars

\* the interpreter runs the call's next statement; a callback that is entered
\* returns or raises
FairSpec == Spec /\ WF_vars(Next)

\* relaxation_factor is not validated: a caller can pass float('nan')
DegenerateRelaxations == {200, NaN}

\* a call whose relaxation_factor argument may be NaN
DegenerateInit ==
    /\ max_iterations \in 0 .. MaxIterations
    /\ tolerance \in Tolerances
    /\ relaxation_arg \in DegenerateRelaxations
    /\ progress_callback \in Callbacks
    /\ relaxation_factor = relaxation_arg
    /\ T_cooling_fluid = initial_array
    /\ T_chamber_wall = initial_array
    /\ T_chamber_fluid = initial_array
    /\ T_chamber_wall_prev = initial_array
    /\ prev_max_diff = Inf
    /\ max_diff = Unbound
    /\ iteration = Unbound
    /\ pc = "loop"
    /\ cooling_area = cooling_area_module
    /\ stdout = <<>>
    /\ cb_errors = 0
    /\ cb_log = <<>>
    /\ diffs = <<>>
    /\ relax_used = <<>>
    /\ result = NoResult
    /\ previous = NoCall
    /\ frame = NoFrame

DegenerateSpec == DegenerateInit /\ [][Next]_vars /\ WF_vars(Next)

\* ------------------------------------------ calls from outside the solver
\* temperatures, mass flows and bore diameters the callers pass
FlowTemperatures == {cK(300), cK(330), cK(400), cK(1344), cK(2000)}
MassFlows == {MASS_FLOW_RATE, 21, 69}
BoreDiameters == {CHAMBER_INNER_DIAMETER, 1000, 2100}
NozzleRadii == {57, 90}
WallTemperatures == {cK(300), cK(900)}
HydraulicDiameters == {CHAMBER_INNER_DIAMETER, 2 * COOLING_GAP, 2100}
\* pressure arguments other than the default: 0.1 MPa and 5 MPa
OtherPressures == {1, 50}

\* chamber_inner_area_local = np.pi * chamber_inner_radius**2
chamber_inner_area_local(chamber_inner_diameter) ==
    (355 * Square(chamber_inner_diameter \div 2)) \div 113

\* cooling_area_local = np.pi * (cooling_outer_radius**2 - cooling_inner_radius**2)
cooling_area_local(chamber_inner_diameter) ==
    (355 * (Square(chamber_inner_diameter \div 2 + CHAMBER_WALL_THICKNESS + COOLING_GAP)
            - Square(chamber_inner_diameter \div 2 + CHAMBER_WALL_THICKNESS))) \div 113

\* np.pi * nozzle_r**2
nozzle_area(nozzle_r) == (355 * Square(nozzle_r)) \div 113

\* the area arguments of the repository's callers, each with the duct it is
\* the area of
FlowCallers ==
    {[caller |-> "simulation", duct |-> "chamber", area |-> chamber_inner_area],
     [caller |-> "simulation", duct |-> "cooling", area |-> cooling_area_module]}
    \cup {[caller |-> "streamlit", duct |-> "chamber",
           area |-> chamber_inner_area_local(d)] : d \in BoreDiameters}
    \cup {[caller |-> "streamlit", duct |-> "cooling",
           area |-> cooling_area_local(d)] : d \in BoreDiameters}
    \cup {[caller |-> "streamlit", duct |-> "nozzle",
           area |-> nozzle_area(r)] : r \in NozzleRadii}

\* the locals of calculate_flow_parameters when the friction factor of
\* lines 155-159 has been computed
flow_locals(caller, T, mass_flow, flow_params) ==
    [function |-> "calculate_flow_parameters",
     caller |-> caller.caller, duct |-> caller.duct,
     T |-> T, area |-> caller.area, mass_flow |-> mass_flow,
     hydraulic_diameter |-> flow_hydraulic_diameter(caller.area),
     roughness |-> flow_roughness(caller.area),
     velocity |-> flow_params.velocity,
     reynolds |-> flow_params.reynolds,
     friction_factor |-> friction_before_correction(flow_params.reynolds),
     f_old |-> Unbound, f_new |-> Unbound, updates |-> 0,
     pc |-> IF corrects_for_roughness(flow_params.reynolds)
            THEN "correction" ELSE "return",
     result |-> NoResult]

idle == frame.pc = "returned"

solver == <<progress_callback, args, relaxation_factor, arrays,
            T_chamber_wall_prev, prev_max_diff, max_diff, iteration, pc,
            cooling_area, output, cb_log, history, result, previous>>

\* lines 138-161: a caller enters calculate_flow_parameters
FlowCall ==
    /\ idle
    /\ \E caller \in FlowCallers, T \in FlowTemperatures, mass_flow \in MassFlows :
          frame' = [pressure |-> PRESSURE, before |-> NoCall]
                   @@ flow_locals(caller, T, mass_flow,
                                  calculate_flow_parameters(T, caller.area,
                                                            mass_flow, PRESSURE))
    /\ UNCHANGED solver

\* the call that has just returned is made once more with the same T, area
\* and mass_flow and another pressure argument
FlowCallAgain ==
    /\ frame.function = "calculate_flow_parameters"
    /\ frame.pc = "returned"
    /\ frame.before = NoCall
    /\ \E pressure \in OtherPressures :
          frame' = [pressure |-> pressure,
                    before |-> [pressure |-> frame.pressure, result |-> frame.result]]
                   @@ flow_locals([caller |-> frame.caller, duct |-> frame.duct,
                                   area |-> frame.area],
                                  frame.T, frame.mass_flow,
                                  calculate_flow_parameters(frame.T, frame.area,
                                                            frame.mass_flow, pressure))
    /\ UNCHANGED solver

\* f_old = friction_factor
ColebrookEnter ==
    /\ frame.pc = "correction"
    /\ frame' = [frame EXCEPT !.f_old = frame.friction_factor, !.pc = "colebrook"]
    /\ UNCHANGED solver

colebrook_in_range_eleven(updates) == updates < 11

\* for _ in range(10):
colebrook_in_range(updates) == updates < 10

\* if abs(f_new - f_old) < 1e-6:
colebrook_settled(f_new, f_old) == Abs(f_new - f_old) < 1

next_estimate ==
    colebrook_update(frame.reynolds, frame.roughness, frame.hydraulic_diameter,
                     frame.f_old)

\* lines 167-171: one pass of the loop body that ends at f_old = f_new
ColebrookUpdate ==
    /\ frame.pc = "colebrook"
    /\ colebrook_in_range(frame.updates)
    /\ \E f_new \in {next_estimate} :
          /\ ~colebrook_settled(f_new, frame.f_old)
          /\ frame' = [frame EXCEPT !.f_new = f_new, !.f_old = f_new,
                                    !.updates = @ + 1]
    /\ UNCHANGED solver

\* lines 167-170: the pass of the loop body that ends at break
ColebrookBreak ==
    /\ frame.pc = "colebrook"
    /\ colebrook_in_range(frame.updates)
    /\ \E f_new \in {next_estimate} :
          /\ colebrook_settled(f_new, frame.f_old)
          /\ frame' = [frame EXCEPT !.f_new = f_new, !.updates = @ + 1,
                                    !.pc = "assign"]
    /\ UNCHANGED solver

\* range(10) is used up
ColebrookExhausted ==
    /\ frame.pc = "colebrook"
    /\ ~colebrook_in_range(frame.updates)
    /\ frame' = [frame EXCEPT !.pc = "assign"]
    /\ UNCHANGED solver

\* friction_factor = f_old
ColebrookAssign ==
    /\ frame.pc = "assign"
    /\ frame' = [frame EXCEPT !.friction_factor = frame.f_old, !.pc = "return"]
    /\ UNCHANGED solver

\* lines 176-180: the returned dict
FlowReturn ==
    /\ frame.pc = "return"
    /\ frame' = [frame EXCEPT !.pc = "returned",
                              !.result = [velocity |-> frame.velocity,
                                          reynolds |-> frame.reynolds,
                                          friction_factor |-> frame.friction_factor]]
    /\ UNCHANGED solver

\* the locals of calculate_heat_transfer when it returns h
heat_locals(T_fluid, T_wall, area_type, hydraulic_diameter, props, flow_params) ==
    [function |-> "calculate_heat_transfer",
     T_fluid |-> T_fluid, T_wall |-> T_wall, area_type |-> area_type,
     hydraulic_diameter |-> hydraulic_diameter,
     area |-> duct_area(area_type),
     reynolds |-> flow_params.reynolds,
     prandtl |-> prandtl_number(props),
     thermal_conductivity |-> props.thermal_conductivity,
     nusselt |-> nusselt_number(flow_params.reynolds, prandtl_number(props),
                                hydraulic_diameter),
     pc |-> "returned",
     result |-> calculate_heat_transfer(T_fluid, T_wall, area_type,
                                        hydraulic_diameter)]

\* lines 200-226: a caller calls calculate_heat_transfer
HeatTransferCall ==
    /\ idle
    /\ \E T_fluid \in FlowTemperatures, T_wall \in WallTemperatures,
          area_type \in {"chamber", "cooling"},
          hydraulic_diameter \in HydraulicDiameters :
          frame' = heat_locals(T_fluid, T_wall, area_type, hydraulic_diameter,
                               hydrogen_properties(T_fluid),
                               calculate_flow_parameters(
                                   T_fluid, duct_area(area_type),
                                   MASS_FLOW_RATE, PRESSURE))
    /\ UNCHANGED solver

\* temperatures the property functions are called with: every knot of the
\* table, and temperatures below and above it
HydrogenTemperatures ==
    {cK(T_data[j]) : j \in 1 .. Len(T_data)} \cup {cK(100), cK(250), cK(4500)}
InconelTemperatures ==
    {cK(T_data_inconel[j]) : j \in 1 .. Len(T_data_inconel)}
    \cup {cK(100), cK(250), cK(1500)}

\* lines 48-80: a caller calls hydrogen_properties
HydrogenPropertiesCall ==
    /\ idle
    /\ \E T \in HydrogenTemperatures :
          frame' = [function |-> "hydrogen_properties", T |-> T, pc |-> "returned",
                    result |-> hydrogen_properties(T)]
    /\ UNCHANGED solver

\* lines 94-118: a caller calls inconel_properties
InconelPropertiesCall ==
    /\ idle
    /\ \E T \in InconelTemperatures :
          frame' = [function |-> "inconel_properties", T |-> T, pc |-> "returned",
                    result |-> inconel_properties(T)]
    /\ UNCHANGED solver

\* wall arrays and heater powers calculate_equilibrium_time is called with: a
\* uniform wall, a wall rising from 600 K by 20 K a station, one falling from
\* 1490 K by 10 K a station; the heater-power slider runs from 10 W to 200 W
WallProfiles ==
    {initial_array,
     [i \in Stations |-> cK(600) + i * cK(20)],
     [i \in Stations |-> cK(1490) - i * cK(10)]}
HeaterPowers == {HEATER_POWER, 10, 35, 140, 200}

\* np.mean(T_chamber_wall)
RECURSIVE sum_from(_, _)
sum_from(array, i) == IF i >= NUM_STATIONS THEN 0 ELSE array[i] + sum_from(array, i + 1)
mean(array) == sum_from(array, 0) \div NUM_STATIONS

\* np.pi * (chamber_outer_radius**2 - chamber_inner_radius**2) * CHAMBER_HEIGHT,
\* in 1e-14 m^3
wall_volume_whole ==
    (((355 * (chamber_outer_radius * chamber_outer_radius
              - chamber_inner_radius * chamber_inner_radius)) \div 113) \div 10)
    * CHAMBER_HEIGHT

\* wall_mass * props_wall['specific_heat'] of the whole wall, in 1e-6 J/K
wall_heat_capacity_whole(props_wall) ==
    ((props_wall.density * (wall_volume_whole \div 10000)) \div 10000)
    * props_wall.specific_heat

log_tenth_base_ten == 0 - 10000

\* np.log(0.1) and np.log(0.01), in 1e-4
log_tenth == 0 - 23026
log_hundredth == 0 - 46052

\* wall_heat_capacity / (heater_power * 0.8), in 1e-4 s
time_constant_of(heat_capacity, heater_power) ==
    (heat_capacity * 10) \div (heater_power * 800)

\* lines 515-523; the two times are in 1e-8 s
equilibrium_times(time_constant) ==
    [time_constant      |-> time_constant,
     time_to_90_percent |-> (0 - time_constant) * log_tenth,
     time_to_99_percent |-> (0 - time_constant) * log_hundredth]

calculate_equilibrium_time(wall, heater_power) ==
    equilibrium_times(
        time_constant_of(wall_heat_capacity_whole(inconel_properties(mean(wall))),
                         heater_power))

\* lines 508-523: a caller calls calculate_equilibrium_time
EquilibriumTimeCall ==
    /\ idle
    /\ \E wall \in WallProfiles, heater_power \in HeaterPowers :
          frame' = [function |-> "calculate_equilibrium_time",
                    T_chamber_wall |-> wall, heater_power |-> heater_power,
                    pc |-> "returned",
                    result |-> calculate_equilibrium_time(wall, heater_power)]
    /\ UNCHANGED solver

\* the module has been imported and no solver call has been made
Imported ==
    /\ max_iterations = 0
    /\ tolerance = cK(1) \div 2
    /\ relaxation_arg = 50
    /\ progress_callback = "none"
    /\ relaxation_factor = relaxation_arg
    /\ T_cooling_fluid = initial_array
    /\ T_chamber_wall = initial_array
    /\ T_chamber_fluid = initial_array
    /\ T_chamber_wall_prev = initial_array
    /\ prev_max_diff = Inf
    /\ max_diff = Unbound
    /\ iteration = Unbound
    /\ pc = "imported"
    /\ cooling_area = cooling_area_module
    /\ stdout = <<>>
    /\ cb_errors = 0
    /\ cb_log = <<>>
    /\ diffs = <<>>
    /\ relax_used = <<>>
    /\ result = NoResult
    /\ previous = NoCall
    /\ frame = NoFrame

FlowNext ==
    \/ FlowCall
    \/ FlowCallAgain
    \/ ColebrookEnter
    \/ ColebrookUpdate
    \/ ColebrookBreak
    \/ ColebrookExhausted
    \/ ColebrookAssign
    \/ FlowReturn
    \/ HeatTransferCall
    \/ HydrogenPropertiesCall
    \/ InconelPropertiesCall
    \/ EquilibriumTimeCall

FlowSpec == Imported /\ [][FlowNext]_vars

\* ------------------------------------------------------------ properties
Range(seq) == {seq[j] : j \in 1 .. Len(seq)}

\* iteration j (one-based) ended with a max-diff strictly below the tolerance
Below(j) == diffs[j] # NaN /\ diffs[j] < tolerance

\* iteration j (one-based, j >= 2) ended with a larger max-diff than the one before
Rose(j) == diffs[j] # NaN /\ diffs[j - 1] # NaN /\ diffs[j] > diffs[j - 1]

LastStation == NUM_STATIONS - 1

\* C1: the loop stops at the first iteration whose max-diff is strictly below
\* the tolerance: no iteration is run after such an iteration, and every call
\* ends by returning the number of iterations run, which is the one-based
\* index of the converged iteration or, if no iteration converged,
\* max_iterations.
C1_StopsAtFirstConvergence ==
    /\ \A j \in 1 .. (Len(diffs) - 1) : ~Below(j)
    /\ (pc \in {"returned", "raised"} =>
          /\ pc = "returned"
          /\ result[4] = Len(diffs)
          /\ (Below(Len(diffs)) \/ Len(diffs) = max_iterations))

\* C2: for max_iterations >= 1 every call that is entered returns, with
\* 1 <= iterations_completed <= max_iterations, and the loop is left only by
\* the convergence test succeeding or by range(max_iterations) being exhausted.
C2_Terminates ==
    /\ [](pc = "returned" => (1 <= result[4] /\ result[4] <= max_iterations))
    /\ [][(pc # "after_loop" /\ pc' = "after_loop") =>
            \/ (pc = "test" /\ Below(Len(diffs)))
            \/ (pc = "loop" /\ Len(diffs) = max_iterations)]_vars
    /\ ((pc = "loop" /\ iteration = Unbound /\ max_iterations >= 1) ~> (pc = "returned"))

C2_Witness ==
    /\ pc = "returned"
    /\ max_iterations = MaxIterations
    /\ result[4] = max_iterations
    /\ ~Below(Len(diffs))

\* C3: the non-convergence warning is printed exactly by the calls in which
\* no iteration met the tolerance, so a call never prints both the
\* convergence message and the warning.
C3_WarningIffNotConverged ==
    pc = "returned" =>
        /\ ("warning" \in Range(stdout)) <=> (\A j \in 1 .. Len(diffs) : ~Below(j))
        /\ ~("warning" \in Range(stdout) /\ "converged" \in Range(stdout))

C5_EveryCallbackServed ==
    (progress_callback # "none" /\ pc = "returned") =>
        /\ Len(cb_log) = result[4]
        /\ \A j \in 1 .. Len(cb_log) : cb_log[j] = <<j - 1, max_iterations, diffs[j]>>

\* C5 as amended: a callback taking three positional arguments is served
\* exactly once per iteration, after the wall update and before the
\* convergence test, with (zero-based index, max_iterations, that iteration's
\* max-diff); a callback taking a single argument is never served: each of
\* its invocations raises, and the error is caught.
C5_TernaryCallbackServed ==
    /\ (progress_callback = "ternary" =>
          /\ (pc \in {"coolant", "chamber", "wall", "max_diff", "callback"}
                => Len(cb_log) = iteration)
          /\ (pc \in {"damping", "test"} => Len(cb_log) = iteration + 1)
          /\ (pc = "returned" => Len(cb_log) = result[4])
          /\ \A j \in 1 .. Len(cb_log) : cb_log[j] = <<j - 1, max_iterations, diffs[j]>>)
    /\ (progress_callback = "unary" =>
          /\ cb_log = <<>>
          /\ (pc = "returned" => cb_errors = result[4]))

C5_Witness ==
    /\ previous # NoCall
    /\ previous.callback = "unary"
    /\ previous.cb_errors >= 2
    /\ progress_callback = "ternary"
    /\ pc = "returned"
    /\ Len(cb_log) >= 2
    /\ Below(Len(diffs))

\* C6: outside the interval between the coolant pass and the boundary
\* assignment, T_chamber_fluid[N-1] equals T_cooling_fluid[N-1]; in particular
\* at the end of every iteration and in the returned arrays.
C6_CounterFlowBoundary ==
    /\ (pc # "chamber" => T_chamber_fluid[LastStation] = T_cooling_fluid[LastStation])
    /\ (pc = "returned" => result[3][LastStation] = result[2][LastStation])

C6_Witness ==
    /\ pc = "returned"
    /\ Len(diffs) >= 2
    /\ ~Below(Len(diffs))
    /\ result[2][LastStation] > cK(INITIAL_TEMP)

\* C7: within a call no step raises relaxation_factor.
C7_RelaxationNeverIncreases ==
    [][pc \notin {"returned", "raised"} => relaxation_factor' <= relaxation_factor]_vars

C7_Witness ==
    /\ pc = "returned"
    /\ Len(relax_used) >= 3
    /\ relaxation_factor < relax_used[3]
    /\ relax_used[3] < relaxation_arg

\* relaxation_factor after the damping step of iteration n (one-based), by the
\* rule of C8
RECURSIVE C8_Expected(_)
C8_Expected(n) ==
    IF n = 0 THEN relaxation_arg
    ELSE IF n >= 2 /\ Rose(n) THEN (C8_Expected(n - 1) * 95) \div 100
    ELSE C8_Expected(n - 1)

\* C8: the damping step of an iteration multiplies relaxation_factor by 0.95
\* if and only if the iteration has a predecessor and its max-diff is strictly
\* greater than the predecessor's; the wall update of iteration k+1 reads the
\* value left by the damping step of iteration k.
C8_AdaptiveDampingRule ==
    /\ \A k \in 1 .. Len(relax_used) : relax_used[k] = C8_Expected(k - 1)
    /\ relaxation_factor =
          C8_Expected(IF pc \in {"callback", "damping"} THEN Len(diffs) - 1 ELSE Len(diffs))

C8_Witness ==
    /\ Len(relax_used) >= 3
    /\ relax_used[2] = relax_used[1]
    /\ relax_used[3] < relax_used[2]

\* C9: a call whose iteration budget is exhausted returns, for every
\* max_iterations >= 0: no call ends by raising.
C9_BudgetExhaustedReturns == pc # "raised"

\* C10: the module-level cooling_area keeps its import-time value; every call
\* starts from INITIAL_TEMP arrays and the relaxation_factor it was passed; a
\* second call with the same arguments ends as the first did, with identical
\* arrays and iteration count.
C10_NoCrossCallState ==
    /\ cooling_area = cooling_area_module
    /\ ((pc = "loop" /\ iteration = Unbound) =>
          /\ T_chamber_wall = initial_array
          /\ T_cooling_fluid = initial_array
          /\ T_chamber_fluid = initial_array
          /\ relaxation_factor = relaxation_arg)
    /\ ((previous # NoCall /\ pc \in {"returned", "raised"}) =>
          /\ previous.outcome = pc
          /\ previous.result = result)

C10_Witness ==
    /\ previous # NoCall
    /\ pc = "returned"
    /\ previous.relaxation_factor < relaxation_arg
    /\ relax_used[1] = relaxation_arg
    /\ result[1] # initial_array

\* C11: in every state the three arrays have exactly NUM_STATIONS elements,
\* indexed 0..NUM_STATIONS-1, and a call that returns returns the 4-tuple
\* (T_chamber_wall, T_cooling_fluid, T_chamber_fluid, iterations run) in that
\* order.
C11_ArrayShapeAndOutputOrder ==
    /\ DOMAIN T_chamber_wall = Stations
    /\ DOMAIN T_cooling_fluid = Stations
    /\ DOMAIN T_chamber_fluid = Stations
    /\ Cardinality(Stations) = NUM_STATIONS
    /\ (pc = "returned" =>
          /\ Len(result) = 4
          /\ result[1] = T_chamber_wall
          /\ result[2] = T_cooling_fluid
          /\ result[3] = T_chamber_fluid
          /\ result[4] = iteration + 1
          /\ \A k \in 1 .. 3 : DOMAIN result[k] = Stations)

C11_Witness ==
    /\ pc = "returned"
    /\ Len(diffs) >= 2
    /\ result[1] # result[2]
    /\ result[2] # result[3]
    /\ result[1] # initial_array

C13_CoolantMonotoneAtConvergence ==
    (pc = "returned" /\ diffs # <<>> /\ Below(Len(diffs)))
        => \A i \in 0 .. (NUM_STATIONS - 2) : result[2][i] <= result[2][i + 1]

FlowFrame == frame.function = "calculate_flow_parameters"
HeatFrame == frame.function = "calculate_heat_transfer"

\* C15: the friction factor is chosen by the Reynolds number alone: 64/Re for
\* Re < 2300 and the Blasius value for Re >= 2300 (2300 itself included), and
\* for 2300 <= Re <= 4000 the Blasius value is returned with no roughness
\* correction applied.
C15_FrictionByReynolds ==
    FlowFrame =>
        /\ (frame.updates = 0 /\ frame.reynolds < 230000)
              => frame.friction_factor = laminar_friction(frame.reynolds)
        /\ (frame.updates = 0 /\ frame.reynolds >= 230000)
              => frame.friction_factor = blasius_friction(frame.reynolds)
        /\ (frame.pc = "returned" /\ frame.reynolds < 230000)
              => /\ frame.result.friction_factor = laminar_friction(frame.reynolds)
                 /\ frame.updates = 0
        /\ (frame.pc = "returned" /\ frame.reynolds >= 230000
                                  /\ frame.reynolds <= 400000)
              => /\ frame.result.friction_factor = blasius_friction(frame.reynolds)
                 /\ frame.updates = 0
                 /\ frame.f_old = Unbound

\* a call with Re = 2300 exactly has returned the Blasius value
C15_Witness ==
    /\ FlowFrame
    /\ frame.pc = "returned"
    /\ frame.reynolds = 230000
    /\ frame.result.friction_factor = blasius_friction(230000)
    /\ frame.result.friction_factor # laminar_friction(230000)

\* C16: the roughness correction runs only when Re > 4000, makes at most 10
\* updates, goes on only while two successive estimates differ by 1e-6 or
\* more and leaves the loop at the first update that differs by less; the
\* returned value is the last estimate when the ten updates were
\* used up and is within 1e-6 of the last estimate when the loop stopped early.
C16_ColebrookBounded ==
    /\ [](FlowFrame =>
            /\ frame.updates <= 10
            /\ (frame.updates > 0 \/ frame.pc \in {"correction", "colebrook", "assign"})
                  => frame.reynolds > 400000
            /\ (frame.pc = "returned" /\ frame.reynolds > 400000)
                  => /\ frame.updates >= 1
                     /\ Abs(frame.result.friction_factor - frame.f_new) < 1)
    /\ [][(frame.pc = "colebrook" /\ frame'.pc = "colebrook")
             => /\ frame.updates < 10
                /\ frame'.updates = frame.updates + 1
                /\ Abs(frame'.f_new - frame.f_old) >= 1]_vars
    /\ [][(frame.pc = "colebrook" /\ frame'.pc = "assign")
             => \/ /\ frame.updates = 10
                   /\ frame'.f_old = frame.f_new
                \/ /\ frame.updates < 10
                   /\ frame'.updates = frame.updates + 1
                   /\ frame'.f_old = frame.f_old
                   /\ Abs(frame'.f_new - frame.f_old) < 1]_vars
    /\ [][(frame.pc = "assign" /\ frame'.pc = "return")
             => frame'.friction_factor = frame.f_old]_vars

\* a call whose correction used all ten updates has returned
C16_Witness ==
    /\ FlowFrame
    /\ frame.pc = "returned"
    /\ frame.updates = 10
    /\ frame.result.friction_factor = frame.f_new
    /\ frame.result.friction_factor # blasius_friction(frame.reynolds)

\* C17: calculate_heat_transfer takes the Reynolds number from the flow area of
\* the duct type (not from the diameter it is given), uses the laminar entry
\* formula with L = CHAMBER_HEIGHT for either duct when Re < 2300 and the
\* Dittus-Boelter formula when Re >= 2300, and returns
\* h = Nu * k / hydraulic_diameter with the diameter the caller supplied.
C17_NusseltByReynolds ==
    HeatFrame =>
        /\ frame.area = (IF frame.area_type = "chamber" THEN chamber_inner_area
                         ELSE cooling_area)
        /\ frame.reynolds =
              calculate_flow_parameters(frame.T_fluid, frame.area,
                                        MASS_FLOW_RATE, PRESSURE).reynolds
        /\ frame.reynolds < 230000
              => frame.nusselt =
                    laminar_of((((frame.reynolds * frame.prandtl) \div 1000)
                                * frame.hydraulic_diameter) \div CHAMBER_HEIGHT)
        /\ frame.reynolds >= 230000
              => frame.nusselt = turbulent_nusselt(frame.reynolds, frame.prandtl)
        /\ \A reynolds \in {229999, 230000} :
              nusselt_number(reynolds, frame.prandtl, frame.hydraulic_diameter)
                 = IF reynolds < 230000
                   THEN laminar_of((((reynolds * frame.prandtl) \div 1000)
                                    * frame.hydraulic_diameter) \div CHAMBER_HEIGHT)
                   ELSE turbulent_nusselt(reynolds, frame.prandtl)
        /\ frame.result =
              (frame.nusselt * frame.thermal_conductivity * 100)
                 \div frame.hydraulic_diameter

\* a cooling-duct call with a diameter that is neither duct's own
C17_Witness ==
    /\ HeatFrame
    /\ frame.area_type = "cooling"
    /\ frame.hydraulic_diameter = 2100
    /\ frame.reynolds < 230000
    /\ frame.result # NaN
    /\ frame.result # calculate_heat_transfer(frame.T_fluid, frame.T_wall,
                                              "cooling", 2 * COOLING_GAP)

\* C18: the coefficient returned does not depend on T_wall: the same call with
\* any other wall temperature returns the same h.
C18_WallTemperatureIgnored ==
    HeatFrame =>
        \A T_wall \in WallTemperatures \cup {frame.T_fluid, cK(1500)} :
            calculate_heat_transfer(frame.T_fluid, T_wall, frame.area_type,
                                    frame.hydraulic_diameter) = frame.result

\* a call whose wall is 600 K hotter than the fluid
C18_Witness ==
    /\ HeatFrame
    /\ frame.T_fluid = cK(300)
    /\ frame.T_wall = cK(900)
    /\ frame.result # NaN
    /\ frame.result > 0

\* C19: a call is evaluated with the hydraulic diameter and roughness of the
\* duct its area belongs to: a cooling-gap area with the cooling-gap constants,
\* and a chamber-bore area, also one derived by the caller from overridden
\* geometry, never with the cooling-gap constants.
C19_DuctConstantsFollowArea ==
    FlowFrame =>
        /\ frame.duct = "cooling"
              => /\ frame.hydraulic_diameter = 2 * COOLING_GAP
                 /\ frame.roughness = COOLING_ROUGHNESS
        /\ frame.duct = "chamber"
              => /\ frame.hydraulic_diameter # 2 * COOLING_GAP
                 /\ frame.roughness # COOLING_ROUGHNESS

\* C20: with the fluid properties and the duct of a call, the friction factor
\* at Re = 2299 and at Re = 2301 differ by no more than 0.005, and the Nusselt
\* numbers at Re = 2299 and at Re = 2301 by no more than 1.
C20_ContinuousAtRegimeBoundary ==
    (FlowFrame /\ frame.pc = "returned") =>
        /\ Abs(friction_before_correction(229900)
               - friction_before_correction(230100)) <= 5000
        /\ \A prandtl \in {prandtl_number(hydrogen_properties(frame.T))} :
              Abs(nusselt_number(229900, prandtl, frame.hydraulic_diameter)
                  - nusselt_number(230100, prandtl, frame.hydraulic_diameter))
                 <= 1000

\* C27: the coolant inlet is a fixed boundary: T_cooling_fluid[0] is
\* INITIAL_TEMP in every state of every call, and so is entry 0 of the coolant
\* array of every returned tuple, whatever the wall and chamber arrays hold.
C27_CoolantInletFixed ==
    /\ T_cooling_fluid[0] = cK(INITIAL_TEMP)
    /\ result # NoResult => result[2][0] = cK(INITIAL_TEMP)
    /\ (previous # NoCall /\ previous.result # NoResult)
          => previous.result[2][0] = cK(INITIAL_TEMP)

\* a returned call whose wall and chamber fluid at station 0 and whose coolant
\* at station 1 have left INITIAL_TEMP
C27_Witness ==
    /\ pc = "returned"
    /\ result # NoResult
    /\ T_chamber_wall[0] > cK(INITIAL_TEMP)
    /\ T_chamber_fluid[0] > cK(INITIAL_TEMP)
    /\ T_cooling_fluid[1] > cK(INITIAL_TEMP)
    /\ result[2][1] > cK(INITIAL_TEMP)

\* C26: each phase writes only its own array. The coolant pass leaves
\* T_chamber_wall, T_chamber_fluid and T_cooling_fluid[0] as they were; the
\* chamber-fluid pass leaves T_chamber_wall and T_cooling_fluid as they were;
\* the wall balance leaves both fluid arrays as they were; the convergence
\* metric, the callback, the damping step and the convergence test leave all
\* three arrays as they were.
C26_PhasesWriteOwnArray ==
    [][/\ pc = "coolant" => /\ UNCHANGED <<T_chamber_wall, T_chamber_fluid>>
                            /\ T_cooling_fluid'[0] = T_cooling_fluid[0]
       /\ pc = "chamber" => UNCHANGED <<T_chamber_wall, T_cooling_fluid>>
       /\ pc = "wall" => UNCHANGED <<T_cooling_fluid, T_chamber_fluid>>
       /\ pc \in {"max_diff", "callback", "damping", "test"} => UNCHANGED arrays]_vars

\* the second iteration has passed its three phases, its metric, its callback
\* and its damping step, and each phase has changed its own array
C26_Witness ==
    /\ pc = "test"
    /\ iteration = 1
    /\ T_cooling_fluid # initial_array
    /\ T_chamber_fluid # initial_array
    /\ T_chamber_fluid # T_cooling_fluid
    /\ T_chamber_wall # T_chamber_wall_prev
    /\ T_chamber_wall_prev # initial_array

\* C24: in each outer iteration the phases run in the order coolant pass,
\* chamber-fluid pass, wall balance, each over all its stations before the next
\* starts. The wall the two fluid passes read is the one the previous iteration
\* left (the copy taken at the top of the iteration); when the chamber pass
\* starts every coolant station holds this iteration's value; when the wall
\* balance starts the chamber inlet equals this iteration's coolant outlet and
\* every chamber station holds this iteration's value; when the wall balance
\* ends every wall station was advanced with this iteration's fluid arrays.
C24_PhaseOrder ==
    /\ [](/\ pc \in {"coolant", "chamber", "wall"} => T_chamber_wall = T_chamber_wall_prev
          /\ pc = "chamber" =>
                \A i \in 0 .. (NUM_STATIONS - 2) :
                    T_cooling_fluid[i + 1]
                       = coolant_station(T_cooling_fluid[i], T_chamber_wall_prev[i])
          /\ pc = "wall" =>
                /\ T_chamber_fluid[NUM_STATIONS - 1] = T_cooling_fluid[NUM_STATIONS - 1]
                /\ \A i \in 1 .. (NUM_STATIONS - 1) :
                       T_chamber_fluid[i - 1]
                          = chamber_station(i, T_chamber_fluid[i], T_chamber_wall_prev[i])
          /\ pc = "max_diff" =>
                \A i \in Stations :
                    T_chamber_wall[i]
                       = wall_station(i, T_chamber_wall_prev[i], T_cooling_fluid[i],
                                      T_chamber_fluid[i], relaxation_factor))
    /\ [][/\ pc = "coolant" => pc' = "chamber"
          /\ pc = "chamber" => pc' = "wall"
          /\ pc = "wall" => pc' = "max_diff"
          /\ pc' = "coolant" => pc = "loop"
          /\ pc' = "chamber" => pc = "coolant"
          /\ pc' = "wall" => pc = "chamber"
          /\ pc' = "max_diff" => pc = "wall"]_vars

\* the wall balance of the second iteration has ended: the wall it started
\* from was already heated, and the coolant outlet it read has warmed
C24_Witness ==
    /\ pc = "max_diff"
    /\ iteration = 1
    /\ T_chamber_wall_prev # initial_array
    /\ T_chamber_wall # T_chamber_wall_prev
    /\ T_cooling_fluid[NUM_STATIONS - 1] > cK(INITIAL_TEMP)
    /\ T_chamber_fluid[NUM_STATIONS - 1] = T_cooling_fluid[NUM_STATIONS - 1]
    /\ T_chamber_fluid[0] > T_chamber_fluid[NUM_STATIONS - 1]

\* the wall balance with every increment computed from the array as it was
\* when the phase started
wall_from_snapshot(Tw, Tc, Tf, relaxation) ==
    [i \in Stations |-> wall_station(i, Tw[i], Tc[i], Tf[i], relaxation)]

\* the in-place wall balance visiting the stations in the order given
RECURSIVE wall_in_order(_, _, _, _, _)
wall_in_order(Tw, Tc, Tf, relaxation, order) ==
    IF order = <<>> THEN Tw
    ELSE value({wall_in_order(updated, Tc, Tf, relaxation, Tail(order)) :
                   updated \in {[Tw EXCEPT ![Head(order)]
                                    = wall_station(Head(order), Tw[Head(order)],
                                                   Tc[Head(order)], Tf[Head(order)],
                                                   relaxation)]}})

\* descending, and even stations before odd ones
StationOrders ==
    {[k \in 1 .. NUM_STATIONS |-> NUM_STATIONS - k],
     [k \in 1 .. NUM_STATIONS |->
         IF 2 * k <= NUM_STATIONS THEN 2 * (k - 1) ELSE 2 * k - NUM_STATIONS - 1]}

\* C25: the wall array the in-place station-by-station balance leaves is, in
\* every iteration, the array obtained by computing all increments from the
\* wall as it was at the start of the phase, and the array an in-place balance
\* leaves that visits the stations in another order.
C25_InPlaceEqualsSnapshot ==
    [][pc = "wall" =>
          /\ T_chamber_wall' = wall_from_snapshot(T_chamber_wall, T_cooling_fluid,
                                                  T_chamber_fluid, relaxation_factor)
          /\ \A order \in StationOrders :
                 T_chamber_wall' = wall_in_order(T_chamber_wall, T_cooling_fluid,
                                                 T_chamber_fluid, relaxation_factor,
                                                 order)]_vars

\* the wall balance of the second iteration has ended; the wall it started
\* from differed from station to station, and neighbouring stations received
\* different increments
C25_Witness ==
    /\ pc = "max_diff"
    /\ iteration = 1
    /\ T_chamber_wall_prev[0] # T_chamber_wall_prev[1]
    /\ T_chamber_wall[0] - T_chamber_wall_prev[0]
          # T_chamber_wall[1] - T_chamber_wall_prev[1]
    /\ \A i \in Stations : T_chamber_wall[i] # NaN

\* the sum of heater_power_distribution over the stations of S
RECURSIVE heater_power_over(_)
heater_power_over(S) ==
    IF S = {} THEN 0
    ELSE value({heater_power_distribution(i) + heater_power_over(S \ {i}) :
                   i \in {CHOOSE j \in S : TRUE}})

\* C28: every station's heater share is HEATER_POWER / NUM_STATIONS and the
\* shares sum to HEATER_POWER. The chamber-fluid pass adds the share of
\* station i, for i = N-1 down to 1, to the heat that takes the fluid from
\* station i to station i-1, so the shares it adds sum to HEATER_POWER less
\* one share, and the share of station 0 is in none of its updates. The wall
\* balance puts the share of station i into the net heat of every station i.
C28_HeaterShares ==
    [](/\ \A i \in Stations :
              heater_power_distribution(i) * NUM_STATIONS = HEATER_POWER * 10000000
       /\ heater_power_over(Stations) = HEATER_POWER * 10000000
       /\ ChamberPassStations = Stations \ {0}
       /\ heater_power_over(ChamberPassStations)
             = HEATER_POWER * 10000000 - heater_power_distribution(0)
       /\ pc = "wall" =>
             \A i \in Stations \ {0} :
                 \E h_chamber \in {calculate_heat_transfer(
                                       T_chamber_fluid[i], T_chamber_wall[i],
                                       "chamber", CHAMBER_INNER_DIAMETER)} :
                     T_chamber_fluid[i - 1]
                        = heated_fluid(
                              T_chamber_fluid[i],
                              (HEATER_POWER * 10000000) \div NUM_STATIONS
                              + heat_flow(h_chamber,
                                          heat_transfer_area(chamber_inner_radius),
                                          T_chamber_wall[i], T_chamber_fluid[i]),
                              hydrogen_properties(T_chamber_fluid[i]).specific_heat)
       /\ pc = "max_diff" =>
             \A i \in Stations :
                 \E h_cooling \in {calculate_heat_transfer(
                                       T_cooling_fluid[i], T_chamber_wall_prev[i],
                                       "cooling", 2 * COOLING_GAP)},
                    h_chamber \in {calculate_heat_transfer(
                                       T_chamber_fluid[i], T_chamber_wall_prev[i],
                                       "chamber", CHAMBER_INNER_DIAMETER)} :
                     T_chamber_wall[i]
                        = T_chamber_wall_prev[i]
                          + wall_increment(
                                (HEATER_POWER * 10000000) \div NUM_STATIONS
                                - heat_flow(h_cooling,
                                            heat_transfer_area(chamber_outer_radius),
                                            T_chamber_wall_prev[i], T_cooling_fluid[i])
                                - heat_flow(h_chamber,
                                            heat_transfer_area(chamber_inner_radius),
                                            T_chamber_wall_prev[i], T_chamber_fluid[i]),
                                wall_heat_capacity(
                                    inconel_properties(T_chamber_wall_prev[i])),
                                relaxation_factor))

\* the first wall balance has ended: the wall and both fluids were at
\* INITIAL_TEMP, so the heat the chamber fluid gained and the rise of the wall
\* came from the heater shares alone, and the chamber fluid was heated at
\* nineteen stations
C28_Witness ==
    /\ pc = "max_diff"
    /\ iteration = 0
    /\ T_chamber_wall_prev = initial_array
    /\ T_cooling_fluid = initial_array
    /\ T_chamber_fluid[NUM_STATIONS - 1] = cK(INITIAL_TEMP)
    /\ \A i \in Stations \ {0} : T_chamber_fluid[i - 1] > T_chamber_fluid[i]
    /\ T_chamber_fluid[NUM_STATIONS - 2]
          = heated_fluid(cK(INITIAL_TEMP), (HEATER_POWER * 10000000) \div NUM_STATIONS,
                         hydrogen_properties(cK(INITIAL_TEMP)).specific_heat)
    /\ \A i \in Stations : T_chamber_wall[i] > cK(INITIAL_TEMP)

\* 2 * pi * radius * dz
spacing_area(radius) == (2 * 355 * radius * dz) \div 113

\* the volume of the wall annulus of axial length dz
spacing_volume ==
    ((355 * (chamber_outer_radius * chamber_outer_radius
             - chamber_inner_radius * chamber_inner_radius)) \div 113) * dz

\* C23: the axial length the solver gives each station is the spacing dz: when
\* a wall balance has ended, the wall-to-coolant area it used is
\* 2*pi*chamber_outer_radius*dz, the wall-to-chamber area is
\* 2*pi*chamber_inner_radius*dz, the ring volume is that of an annulus of
\* length dz, and every wall entry has risen by the increment these give.
C23_SegmentLengthIsSpacing ==
    pc = "max_diff" =>
        /\ heat_transfer_area(chamber_outer_radius) = spacing_area(chamber_outer_radius)
        /\ heat_transfer_area(chamber_inner_radius) = spacing_area(chamber_inner_radius)
        /\ wall_volume = spacing_volume
        /\ \A i \in Stations :
               \E h_cooling \in {calculate_heat_transfer(
                                     T_cooling_fluid[i], T_chamber_wall_prev[i],
                                     "cooling", 2 * COOLING_GAP)},
                  h_chamber \in {calculate_heat_transfer(
                                     T_chamber_fluid[i], T_chamber_wall_prev[i],
                                     "chamber", CHAMBER_INNER_DIAMETER)},
                  props_wall \in {inconel_properties(T_chamber_wall_prev[i])} :
                   T_chamber_wall[i]
                      = T_chamber_wall_prev[i]
                        + wall_increment(
                              heater_power_distribution(i)
                              - heat_flow(h_cooling, spacing_area(chamber_outer_radius),
                                          T_chamber_wall_prev[i], T_cooling_fluid[i])
                              - heat_flow(h_chamber, spacing_area(chamber_inner_radius),
                                          T_chamber_wall_prev[i], T_chamber_fluid[i]),
                              (((props_wall.density * (spacing_volume \div 1000))
                                \div 1000000) * props_wall.specific_heat) \div 10,
                              relaxation_factor)

\* C29: an iteration whose max-diff is NaN is not taken as converged and does
\* not shrink relaxation_factor; every max-diff after a NaN one is NaN; a call
\* that has seen a NaN max-diff does not raise, goes on to return, and when it
\* has returned it has run max_iterations iterations, has printed the warning
\* and has returned max_iterations as its count.
C29_NaNRunsToTheEnd ==
    /\ [][/\ (pc = "test" /\ max_diff = NaN) => pc' = "loop"
          /\ (pc = "damping" /\ max_diff = NaN)
                => relaxation_factor' = relaxation_factor]_vars
    /\ [](/\ \A k \in 1 .. Len(diffs) :
                 diffs[k] = NaN => \A j \in k .. Len(diffs) : diffs[j] = NaN
          /\ (diffs # <<>> /\ diffs[Len(diffs)] = NaN) =>
                /\ pc # "raised"
                /\ \A i \in Stations : T_chamber_wall[i] = NaN
                /\ pc = "returned" =>
                      /\ Len(diffs) = max_iterations
                      /\ stdout = <<"warning">>
                      /\ result = <<T_chamber_wall, T_cooling_fluid, T_chamber_fluid,
                                     max_iterations>>)
    /\ (pc = "callback" /\ max_diff = NaN) ~> (pc = "returned" /\ max_diff = NaN)

\* a call with a NaN relaxation_factor has returned after two or more
\* iterations, each with a NaN max-diff
C29_Witness ==
    /\ pc = "returned"
    /\ max_iterations >= 2
    /\ Len(diffs) = max_iterations
    /\ \A k \in 1 .. Len(diffs) : diffs[k] = NaN
    /\ relax_used = [k \in 1 .. max_iterations |-> relaxation_arg]
    /\ T_chamber_wall[0] = NaN
    /\ T_cooling_fluid[NUM_STATIONS - 1] = NaN
    /\ stdout = <<"warning">>

\* C30: a call of calculate_flow_parameters repeated with the same T, area and
\* mass_flow and another pressure returns the same velocity, Reynolds number
\* and friction factor; and the Reynolds number calculate_heat_transfer works
\* with is the one of the default mass flow MASS_FLOW_RATE, whatever pressure
\* is named.
C30_PressureHasNoInfluence ==
    /\ (FlowFrame /\ frame.pc = "returned" /\ frame.before # NoCall) =>
          /\ frame.pressure # frame.before.pressure
          /\ frame.result.velocity = frame.before.result.velocity
          /\ frame.result.reynolds = frame.before.result.reynolds
          /\ frame.result.friction_factor = frame.before.result.friction_factor
    /\ HeatFrame =>
          \A pressure \in OtherPressures \cup {PRESSURE} :
              frame.reynolds
                 = calculate_flow_parameters(frame.T_fluid, duct_area(frame.area_type),
                                             MASS_FLOW_RATE, pressure).reynolds

\* a call at 5 MPa has returned after the same call at the default 1 MPa, with
\* a friction factor that went through the roughness correction
C30_Witness ==
    /\ FlowFrame
    /\ frame.pc = "returned"
    /\ frame.before # NoCall
    /\ frame.before.pressure = PRESSURE
    /\ frame.pressure = 50
    /\ frame.updates > 0
    /\ frame.result.velocity > 0
    /\ frame.result.friction_factor > 0

HydrogenFrame == frame.function = "hydrogen_properties"
InconelFrame == frame.function = "inconel_properties"

EquilibriumFrame == frame.function = "calculate_equilibrium_time"

\* C22: calculate_equilibrium_time returns time_constant = wall heat capacity
\* / (0.8 * heater_power), time_to_90_percent = -time_constant * ln(0.1) and
\* time_to_99_percent = -time_constant * ln(0.01); time_to_99_percent is twice
\* time_to_90_percent, time_to_90_percent exceeds time_constant, which is
\* positive; and with twice the heater power all three are halved (to the
\* last digit carried for time_constant).
C22_EquilibriumTimes ==
    EquilibriumFrame =>
        \E heat_capacity \in {wall_heat_capacity_whole(
                                  inconel_properties(mean(frame.T_chamber_wall)))},
           doubled \in {calculate_equilibrium_time(frame.T_chamber_wall,
                                                   2 * frame.heater_power)} :
            /\ frame.result.time_constant
                  = (heat_capacity * 10) \div (8 * frame.heater_power * 100)
            /\ frame.result.time_to_90_percent
                  = frame.result.time_constant * 23026
            /\ frame.result.time_to_99_percent
                  = frame.result.time_constant * 46052
            /\ frame.result.time_to_99_percent = 2 * frame.result.time_to_90_percent
            /\ frame.result.time_to_99_percent > frame.result.time_to_90_percent
            /\ frame.result.time_to_90_percent > frame.result.time_constant * 10000
            /\ frame.result.time_constant > 0
            /\ frame.result.time_constant - 2 * doubled.time_constant \in {0, 1}
            /\ doubled.time_to_90_percent = doubled.time_constant * 23026
            /\ doubled.time_to_99_percent = doubled.time_constant * 46052

\* the call made for a wall at 300 K and the default 70 W: the whole wall
\* holds 9.4 J/K and the time constant is 0.1678 s
C22_Witness ==
    /\ EquilibriumFrame
    /\ frame.T_chamber_wall = initial_array
    /\ frame.heater_power = HEATER_POWER
    /\ frame.result.time_constant = 1678
    /\ frame.result.time_to_90_percent = 1678 * 23026

====
